---------------------------- MODULE Spec2Model ----------------------------
(***************************************************************************)
(* Drift monitoring: the Monitor class of 04-Production/01-Monitoring.py   *)
(* (lines 434-508) and the library calls it makes.                         *)
(*                                                                         *)
(* A window (pandas DataFrame) is a record [columns, rows]: the ordered    *)
(* column names and the rows, each row a function from column name to      *)
(* value.  Values are small integers; Null stands for None/NaN.            *)
(*                                                                         *)
(* Real numbers are exact rationals [num, den] with den > 0; NaN is the    *)
(* rational 0/0 and every comparison with it is false, as in IEEE          *)
(* arithmetic.  The chi-squared survival function is not rational in its   *)
(* argument: it is tabulated to six decimals at the statistics the bounded *)
(* windows can produce.                                                    *)
(*                                                                         *)
(* Library semantics are those of pandas 1.x (value_counts names its       *)
(* result after the column and drops nulls) and scipy >= 1.7 (ks_2samp in  *)
(* mode "asymp" evaluates kstwo.sf(d, round(en)); chi2_contingency applies *)
(* the clamped Yates correction when dof = 1).                             *)
(***************************************************************************)
EXTENDS Integers, Sequences, FiniteSets, TLC

(***************************************************************************)
(* Bounds of the model.                                                    *)
(***************************************************************************)
MaxRows == 2      \* rows per window

(***************************************************************************)
(* Values and rationals.                                                   *)
(***************************************************************************)
Null == -1

Rat(n, d) == [num |-> n, den |-> d]

NaN == Rat(0, 0)

IsNaN(x) == x.den = 0

\* x <= y on floats: false when either side is NaN
Leq(x, y) == /\ ~IsNaN(x)
             /\ ~IsNaN(y)
             /\ x.num * y.den <= y.num * x.den

\* x < y on floats: false when either side is NaN
Less(x, y) == /\ ~IsNaN(x)
              /\ ~IsNaN(y)
              /\ x.num * y.den < y.num * x.den

\* x == y on floats
RatEq(x, y) == /\ ~IsNaN(x)
               /\ ~IsNaN(y)
               /\ x.num * y.den = y.num * x.den

Abs(i) == IF i < 0 THEN -i ELSE i

RECURSIVE Gcd(_, _)
Gcd(a, b) == IF b = 0 THEN a ELSE Gcd(b, a % b)

\* the rational n/d in lowest terms (d > 0)
Reduce(n, d) == LET g == Gcd(Abs(n), d) IN Rat(n \div g, d \div g)

SetMax(S) == CHOOSE x \in S : \A y \in S : y <= x

SetMin(S) == CHOOSE x \in S : \A y \in S : x <= y

Range(s) == {s[k] : k \in 1..Len(s)}

RECURSIVE SumSeq(_)
SumSeq(s) == IF s = <<>> THEN 0 ELSE Head(s) + SumSeq(Tail(s))

\* the elements of a finite set of integers in increasing order
RECURSIVE SortedSeq(_)
SortedSeq(S) == IF S = {} THEN <<>>
                ELSE LET m == SetMin(S) IN <<m>> \o SortedSeq(S \ {m})

\* number of entries of s equal to v
Count(s, v) == Cardinality({k \in 1..Len(s) : s[k] = v})

(***************************************************************************)
(* pandas: column access.                                                  *)
(***************************************************************************)
HasColumn(pdf, name) == \E k \in 1..Len(pdf.columns) : pdf.columns[k] = name

\* pdf[name]: the column as a sequence of values (KeyError when absent)
Column(pdf, name) == [k \in 1..Len(pdf.rows) |-> pdf.rows[k][name]]

\* (pdf1.columns == pdf2.columns): pandas refuses to compare indexes of
\* different lengths
columns_comparable(p1, p2) == Len(p1.columns) = Len(p2.columns)

\* (pdf1.columns == pdf2.columns).all()
columns_match(p1, p2) ==
    \A k \in 1..Len(p1.columns) : p1.columns[k] = p2.columns[k]

(***************************************************************************)
(* scipy.stats.ks_2samp(data1, data2, mode="asymp").                       *)
(***************************************************************************)
\* ValueError('Data passed to ks_2samp must not be empty')
ks_2samp_raises(data1, data2) == Len(data1) = 0 \/ Len(data2) = 0

\* searchsorted(data, x, side="right"): how many entries of data are <= x
CountLeq(data, x) == Cardinality({k \in 1..Len(data) : data[k] <= x})

\* d = max |cdf1 - cdf2| over the pooled sample, as a rational over n1*n2
ks_statistic(data1, data2) ==
    LET n1 == Len(data1)
        n2 == Len(data2)
        pooled == Range(data1) \cup Range(data2)
        diffs == {Abs(CountLeq(data1, x) * n2 - CountLeq(data2, x) * n1) :
                     x \in pooled}
    IN  Rat(SetMax(diffs), n1 * n2)

\* numpy.round(a / b): round half to even
RoundHalfEven(a, b) ==
    LET q == a \div b
        r == a % b
    IN  IF 2 * r < b THEN q
        ELSE IF 2 * r > b THEN q + 1
        ELSE IF q % 2 = 0 THEN q ELSE q + 1

\* kstwo.sf(d, n): P(D_n >= d) of the exact two-sided one-sample KS
\* distribution; nan when n < 1.  Closed forms: for d >= 1/2 it is
\* 2 (1-d)^n, for d <= 1/(2n) it is 1, and for n = 2 and 1/4 <= d <= 1/2 it
\* is 1 - 2 (2d - 1/2)^2.  Within MaxRows <= 5 only n <= 2 occurs.
kstwo_sf(d, n) ==
    IF n < 1 THEN NaN
    ELSE IF 2 * n * d.num <= d.den THEN Rat(1, 1)
    ELSE IF n = 1 THEN Rat(2 * (d.den - d.num), d.den)
    ELSE IF n = 2 /\ 2 * d.num <= d.den
         THEN Rat(2 * d.den * d.den - (4 * d.num - d.den) * (4 * d.num - d.den),
                  2 * d.den * d.den)
    ELSE IF n = 2
         THEN Rat(2 * (d.den - d.num) * (d.den - d.num), d.den * d.den)
    ELSE NaN

\* the p-value: kstwo.sf(d, round(n1 n2 / (n1 + n2)))
ks_2samp(data1, data2) ==
    LET n1 == Len(data1)
        n2 == Len(data2)
        d == ks_statistic(data1, data2)
    IN  [statistic |-> d,
         pvalue |-> kstwo_sf(d, RoundHalfEven(n1 * n2, n1 + n2))]

(***************************************************************************)
(* pandas: the contingency table of handle_categorical (lines 473-476).    *)
(***************************************************************************)
\* a variant of dropna: the nulls are filled with category 0 and counted
dropna_fillna(col) == [k \in 1..Len(col) |-> IF col[k] = Null THEN 0 ELSE col[k]]

\* Series.value_counts() counts with dropna=True: nulls are left out
dropna(col) == SelectSeq(col, LAMBDA v : v # Null)

\* the index of Series.value_counts(): the categories present
Categories(col) == Range(dropna(col))

\* a variant of joined_index: join(..., how="left") keeps the index of the
\* first window only
joined_index_left(col1, col2) == SortedSeq(Categories(col1))

\* pdf_count1.join(pdf_count2, how="outer"): the sorted union of the two
\* indexes
joined_index(col1, col2) == SortedSeq(Categories(col1) \cup Categories(col2))

\* a variant of counts_row: a category is counted once however often it
\* occurs
counts_row_unique(col, index) ==
    [k \in 1..Len(index) |-> IF index[k] \in Range(col) THEN 1 ELSE 0]

\* one row of np.array([pdf_counts["pdf1"], pdf_counts["pdf2"]]): the count
\* of each category of the joined index, 0 where fillna(0) filled a gap
counts_row(col, index) ==
    [k \in 1..Len(index) |-> Count(dropna(col), index[k])]

\* obs: the 2 x K array handed to chi2_contingency
contingency_table(col1, col2) ==
    LET index == joined_index(col1, col2)
    IN  [index |-> index,
         pdf1 |-> counts_row(col1, index),
         pdf2 |-> counts_row(col2, index)]

(***************************************************************************)
(* scipy.stats.chi2_contingency(obs).                                      *)
(***************************************************************************)
\* ValueError: "No data; `observed` has size 0", or "The internally computed
\* table of expected frequencies has a zero element" (a window without any
\* observation; a column of the table always holds an observation)
chi2_contingency_raises(obs) ==
    \/ Len(obs.index) = 0
    \/ SumSeq(obs.pdf1) = 0
    \/ SumSeq(obs.pdf2) = 0

\* chi2.sf(s, 1) to six decimals, at the statistics in lowest terms that a
\* 2 x 2 table produces with at most four observations per row, or with at
\* most six in one row and at most three in the other
chi2_sf1(stat) ==
    LET s == <<stat.num, stat.den>>
    IN  CASE s = <<0, 1>> -> Rat(1, 1)
          [] s = <<7, 288>> -> Rat(876110, 1000000)
          [] s = <<5, 96>> -> Rat(819477, 1000000)
          [] s = <<3, 32>> -> Rat(759463, 1000000)
          [] s = <<7, 64>> -> Rat(740857, 1000000)
          [] s = <<3, 20>> -> Rat(698535, 1000000)
          [] s = <<3, 16>> -> Rat(665006, 1000000)
          [] s = <<5, 16>> -> Rat(576150, 1000000)
          [] s = <<35, 96>> -> Rat(545972, 1000000)
          [] s = <<4, 9>> -> Rat(504985, 1000000)
          [] s = <<1, 2>> -> Rat(479500, 1000000)
          [] s = <<2, 3>> -> Rat(414216, 1000000)
          [] s = <<45, 64>> -> Rat(401736, 1000000)
          [] s = <<3, 4>> -> Rat(386476, 1000000)
          [] s = <<1, 1>> -> Rat(317311, 1000000)
          [] s = <<189, 160>> -> Rat(277102, 1000000)
          [] s = <<847, 576>> -> Rat(225269, 1000000)
          [] s = <<245, 144>> -> Rat(192106, 1000000)
          [] s = <<32, 15>> -> Rat(144127, 1000000)
          [] s = <<75, 32>> -> Rat(125786, 1000000)
          [] s = <<8, 3>> -> Rat(102470, 1000000)
          [] s = <<2023, 576>> -> Rat(60920, 1000000)
          [] s = <<9, 2>> -> Rat(33895, 1000000)
          [] s = <<7, 400>> -> Rat(894757, 1000000)
          [] s = <<9, 160>> -> Rat(812524, 1000000)
          [] s = <<8, 105>> -> Rat(782528, 1000000)
          [] s = <<9, 112>> -> Rat(776814, 1000000)
          [] s = <<9, 64>> -> Rat(707660, 1000000)
          [] s = <<8, 45>> -> Rat(673290, 1000000)
          [] s = <<21, 80>> -> Rat(608408, 1000000)
          [] s = <<8, 25>> -> Rat(571608, 1000000)
          [] s = <<8, 21>> -> Rat(537094, 1000000)
          [] s = <<9, 16>> -> Rat(453255, 1000000)
          [] s = <<8, 9>> -> Rat(345779, 1000000)
          [] s = <<24, 25>> -> Rat(327187, 1000000)
          [] s = <<175, 144>> -> Rat(270289, 1000000)
          [] s = <<45, 32>> -> Rat(235680, 1000000)
          [] s = <<8, 5>> -> Rat(205903, 1000000)
          [] s = <<225, 112>> -> Rat(156376, 1000000)
          [] s = <<441, 160>> -> Rat(96875, 1000000)
          [] s = <<1183, 400>> -> Rat(85480, 1000000)
          [] s = <<32, 9>> -> Rat(59346, 1000000)
          [] s = <<968, 225>> -> Rat(38063, 1000000)
          [] s = <<81, 16>> -> Rat(24449, 1000000)

\* the statistic of a 2 x 2 table with Yates' correction: every cell is
\* moved by min(1/2, |O - E|) towards its expected value, which gives
\* n (max(|ad - bc| - n/2, 0))^2 / (r1 r2 c1 c2)
chi2_statistic_2x2(obs) ==
    LET a == obs.pdf1[1]
        b == obs.pdf1[2]
        c == obs.pdf2[1]
        d == obs.pdf2[2]
        n == a + b + c + d
        adj == IF 2 * Abs(a * d - b * c) > n
               THEN 2 * Abs(a * d - b * c) - n ELSE 0
    IN  Reduce(n * adj * adj, 4 * (a + b) * (c + d) * (a + c) * (b + d))

\* dof = K - 1; with dof = 0 scipy returns chi2 = 0.0 and p = 1.0 without
\* running the test.  The windows of this model hold at most two categories.
chi2_contingency(obs) ==
    LET dof == Len(obs.index) - 1
    IN  IF dof = 0 THEN [statistic |-> Rat(0, 1), pvalue |-> Rat(1, 1), dof |-> 0]
        ELSE LET stat == chi2_statistic_2x2(obs)
             IN  [statistic |-> stat, pvalue |-> chi2_sf1(stat), dof |-> dof]

(***************************************************************************)
(* Inputs: the windows, feature lists and alpha levels a Monitor is built  *)
(* from.                                                                   *)
(***************************************************************************)
FullSchema == <<"n1", "n2", "c1", "c2">>

\* the schemas two matching windows can have: all four features, or one of
\* the features the lists can name is absent from both windows
Schemas == {FullSchema, <<"n1", "n2", "c1">>, <<"n1", "c1", "c2">>}

\* the records the windows are made of: two numeric and two categorical
\* features, the categorical ones integer coded
RecordList ==
    << [n1 |-> 0, n2 |-> 0, c1 |-> 0, c2 |-> 0],
       [n1 |-> 1, n2 |-> 0, c1 |-> 1, c2 |-> 0],
       [n1 |-> 1, n2 |-> 1, c1 |-> Null, c2 |-> 1] >>

SeqsUpTo(S, n) == UNION {[1..k -> S] : k \in 0..n}

NoDuplicates(s) == \A i, j \in 1..Len(s) : i # j => s[i] # s[j]

NonDecreasing(s) == \A i, j \in 1..Len(s) : i < j => s[i] <= s[j]

\* a window's rows, up to their order (no operation of the Monitor depends
\* on the order of the rows)
RowSeqs ==
    {[k \in 1..Len(s) |-> RecordList[s[k]]] :
        s \in {t \in SeqsUpTo(1..Len(RecordList), MaxRows) : NonDecreasing(t)}}

\* the window with the columns cols and the rows r cut down to them
Frame(cols, r) ==
    [columns |-> cols,
     rows |-> [k \in 1..Len(r) |-> [c \in Range(cols) |-> r[k][c]]]]

\* the pairs of windows: any two windows of one schema, and a window with
\* a copy of itself that lost a column or has its columns reordered
FramePairs ==
    {<<Frame(cols, r1), Frame(cols, r2)>> :
        cols \in Schemas, r1 \in RowSeqs, r2 \in RowSeqs}
    \cup
    {<<Frame(FullSchema, r), Frame(cols, r)>> :
        cols \in {<<"n1", "n2", "c1">>, <<"n2", "n1", "c1", "c2">>},
        r \in RowSeqs}

\* the feature lists: the duplicate-free sequences of the family's features
FeatureLists(S) == {s \in SeqsUpTo(S, Cardinality(S)) : NoDuplicates(s)}

NumLists == FeatureLists({"n1", "n2"})

CatLists == FeatureLists({"c1", "c2"})

\* the default .05, the largest valid level 1, and an invalid level 2
Alphas == {Rat(1, 20), Rat(1, 1), Rat(2, 1)}

(***************************************************************************)
(* State.  All variables but the last two are functions of the Monitor     *)
(* instance.                                                               *)
(***************************************************************************)
VARIABLES
    pdf1,                 \* self.pdf1
    pdf2,                 \* self.pdf2
    alpha,                \* self.alpha
    categorical_columns,  \* self.categorical_columns
    continuous_columns,   \* self.continuous_columns
    pc,                   \* where the instance is: "init" (in __init__),
                          \* "ready", "numeric", "categorical", "done",
                          \* "init_raised", "run_raised"
    exc,                  \* the exception that ended __init__ or run()
    idx,                  \* position of the running for loop in its list
    corrected_alpha,      \* the local corrected_alpha of the running handler
    corrections,          \* every corrected alpha computed, by family
    tested,               \* every test executed, with its verdict
    drifts,               \* the arguments on_drift was called with, in order
    null_report,          \* what generate_null_counts last returned
    percent_report,       \* what generate_percent_change last returned
    ks_args,              \* the two samples calculate_ks is called with
    ks_result             \* what calculate_ks returned

vars == <<pdf1, pdf2, alpha, categorical_columns, continuous_columns,
          pc, exc, idx, corrected_alpha, corrections, tested, drifts,
          null_report, percent_report,
          ks_args, ks_result>>

fields == <<pdf1, pdf2, alpha, categorical_columns, continuous_columns>>

Ids == DOMAIN pc

NoReport == [kind |-> "none"]

\* calculate_ks is not called
NoCall == [kind |-> "none"]

\* the state in which __init__ of each instance is entered with arguments
\* args[m] = [pdf1, pdf2, cat_cols, num_cols, alpha]
InitWith(args) ==
    /\ pdf1 = [m \in DOMAIN args |-> args[m].pdf1]
    /\ pdf2 = [m \in DOMAIN args |-> args[m].pdf2]
    /\ alpha = [m \in DOMAIN args |-> args[m].alpha]
    /\ categorical_columns = [m \in DOMAIN args |-> args[m].cat_cols]
    /\ continuous_columns = [m \in DOMAIN args |-> args[m].num_cols]
    /\ pc = [m \in DOMAIN args |-> "init"]
    /\ exc = [m \in DOMAIN args |-> "none"]
    /\ idx = [m \in DOMAIN args |-> 0]
    /\ corrected_alpha = [m \in DOMAIN args |-> NaN]
    /\ corrections = [m \in DOMAIN args |-> <<>>]
    /\ tested = [m \in DOMAIN args |-> <<>>]
    /\ drifts = [m \in DOMAIN args |-> <<>>]
    /\ null_report = [m \in DOMAIN args |-> NoReport]
    /\ percent_report = [m \in DOMAIN args |-> NoReport]
    /\ ks_args = NoCall
    /\ ks_result = NoCall

Args == {[pdf1 |-> fp[1], pdf2 |-> fp[2], cat_cols |-> cc, num_cols |-> nc,
          alpha |-> a] :
            fp \in FramePairs, cc \in CatLists, nc \in NumLists, a \in Alphas}

Init == \E a \in Args : InitWith([m \in {1} |-> a])

(***************************************************************************)
(* Monitor.__init__ (lines 436-446).                                       *)
(***************************************************************************)
\* how __init__ ends: "none" when it returns
init_exception(p1, p2) ==
    IF ~columns_comparable(p1, p2) THEN "ValueError"
    ELSE IF ~columns_match(p1, p2) THEN "AssertionError"
    ELSE "none"

Monitor_init(m) ==
    /\ pc[m] = "init"
    /\ LET e == init_exception(pdf1[m], pdf2[m])
       IN  /\ exc' = [exc EXCEPT ![m] = e]
           /\ pc' = [pc EXCEPT ![m] = IF e = "none" THEN "ready"
                                      ELSE "init_raised"]
    /\ UNCHANGED <<ks_args, ks_result>>
    /\ UNCHANGED <<fields, idx, corrected_alpha, corrections, tested, drifts,
                   null_report, percent_report>>

(***************************************************************************)
(* Monitor.on_drift (lines 502-508): the feature is reported.              *)
(***************************************************************************)
\* a variant of on_drift: the newest report is put first
on_drift_prepend(log, feature) == <<feature>> \o log

on_drift(log, feature) == Append(log, feature)

(***************************************************************************)
(* The Bonferroni correction (lines 459 and 470): alpha / len(columns),    *)
(* ZeroDivisionError on an empty list.                                     *)
(***************************************************************************)
\* a variant of bonferroni: the family-wide alpha is used uncorrected
bonferroni_uncorrected(a, columns) == Rat(a.num, a.den)

bonferroni(a, columns) == Rat(a.num, a.den * Len(columns))

(***************************************************************************)
(* Monitor.run and Monitor.handle_numeric (lines 448-464).                 *)
(***************************************************************************)
Raise(m, e) ==
    /\ pc' = [pc EXCEPT ![m] = "run_raised"]
    /\ exc' = [exc EXCEPT ![m] = e]

\* a variant of run: an empty numeric list is passed over instead of
\* failing on the division
run_skips_empty(m) ==
    /\ pc[m] = "ready"
    /\ IF Len(continuous_columns[m]) = 0
       THEN /\ idx' = [idx EXCEPT ![m] = 1]
            /\ pc' = [pc EXCEPT ![m] = "numeric"]
            /\ UNCHANGED <<exc, corrected_alpha, corrections>>
       ELSE LET ca == bonferroni(alpha[m], continuous_columns[m])
            IN  /\ corrected_alpha' = [corrected_alpha EXCEPT ![m] = ca]
                /\ corrections' = [corrections EXCEPT ![m] =
                       Append(@, [family |-> "numeric", value |-> ca])]
                /\ idx' = [idx EXCEPT ![m] = 1]
                /\ pc' = [pc EXCEPT ![m] = "numeric"]
                /\ UNCHANGED exc
    /\ UNCHANGED <<ks_args, ks_result>>
    /\ UNCHANGED <<fields, tested, drifts, null_report, percent_report>>

\* run() enters handle_numeric, which computes its corrected alpha
run(m) ==
    /\ pc[m] = "ready"
    /\ IF Len(continuous_columns[m]) = 0
       THEN /\ Raise(m, "ZeroDivisionError")
            /\ UNCHANGED <<idx, corrected_alpha, corrections>>
       ELSE LET ca == bonferroni(alpha[m], continuous_columns[m])
            IN  /\ corrected_alpha' = [corrected_alpha EXCEPT ![m] = ca]
                /\ corrections' = [corrections EXCEPT ![m] =
                       Append(@, [family |-> "numeric", value |-> ca])]
                /\ idx' = [idx EXCEPT ![m] = 1]
                /\ pc' = [pc EXCEPT ![m] = "numeric"]
                /\ UNCHANGED exc
    /\ UNCHANGED <<ks_args, ks_result>>
    /\ UNCHANGED <<fields, tested, drifts, null_report, percent_report>>

\* a variant of local_corrected_alpha: one module-level corrected_alpha, as
\* in the cells of lines 359-399, which every run reads as the first
\* instance left it
module_corrected_alpha(m) ==
    corrected_alpha[CHOOSE i \in Ids : \A j \in Ids : i <= j]

\* corrected_alpha is a local variable of the handler that runs for
\* instance m
local_corrected_alpha(m) == corrected_alpha[m]

\* the verdict of line 463
numeric_drift(pval, ca) == Leq(pval, ca)

\* one iteration of the loop of handle_numeric
handle_numeric(m) ==
    /\ pc[m] = "numeric"
    /\ idx[m] <= Len(continuous_columns[m])
    /\ LET num == continuous_columns[m][idx[m]]
       IN  IF ~HasColumn(pdf1[m], num) \/ ~HasColumn(pdf2[m], num)
           THEN /\ Raise(m, "KeyError")
                /\ UNCHANGED <<idx, tested, drifts>>
           ELSE LET data1 == Column(pdf1[m], num)
                    data2 == Column(pdf2[m], num)
                IN  IF ks_2samp_raises(data1, data2)
                    THEN /\ Raise(m, "ValueError")
                         /\ UNCHANGED <<idx, tested, drifts>>
                    ELSE LET ks_pval == ks_2samp(data1, data2).pvalue
                             ca == local_corrected_alpha(m)
                             d == numeric_drift(ks_pval, ca)
                         IN  /\ tested' = [tested EXCEPT ![m] = Append(@,
                                    [family |-> "numeric", feature |-> num,
                                     pvalue |-> ks_pval,
                                     threshold |-> ca,
                                     drift |-> d])]
                             /\ drifts' = [drifts EXCEPT ![m] =
                                    IF d THEN on_drift(@, num) ELSE @]
                             /\ idx' = [idx EXCEPT ![m] = @ + 1]
                             /\ UNCHANGED <<pc, exc>>
    /\ UNCHANGED <<ks_args, ks_result>>
    /\ UNCHANGED <<fields, corrected_alpha, corrections, null_report,
                   percent_report>>

(***************************************************************************)
(* Monitor.handle_categorical (lines 466-479).                             *)
(***************************************************************************)
\* a variant of enter_categorical: the loop of handle_numeric may be left
\* one feature early
enter_categorical_early(m) ==
    /\ pc[m] = "numeric"
    /\ idx[m] >= Len(continuous_columns[m])
    /\ IF Len(categorical_columns[m]) = 0
       THEN /\ Raise(m, "ZeroDivisionError")
            /\ UNCHANGED <<idx, corrected_alpha, corrections>>
       ELSE LET ca == bonferroni(alpha[m], categorical_columns[m])
            IN  /\ corrected_alpha' = [corrected_alpha EXCEPT ![m] = ca]
                /\ corrections' = [corrections EXCEPT ![m] =
                       Append(@, [family |-> "categorical", value |-> ca])]
                /\ idx' = [idx EXCEPT ![m] = 1]
                /\ pc' = [pc EXCEPT ![m] = "categorical"]
                /\ UNCHANGED exc
    /\ UNCHANGED <<ks_args, ks_result>>
    /\ UNCHANGED <<fields, tested, drifts, null_report, percent_report>>

\* handle_numeric returns and run() enters handle_categorical, which
\* computes its corrected alpha
enter_categorical(m) ==
    /\ pc[m] = "numeric"
    /\ idx[m] > Len(continuous_columns[m])
    /\ IF Len(categorical_columns[m]) = 0
       THEN /\ Raise(m, "ZeroDivisionError")
            /\ UNCHANGED <<idx, corrected_alpha, corrections>>
       ELSE LET ca == bonferroni(alpha[m], categorical_columns[m])
            IN  /\ corrected_alpha' = [corrected_alpha EXCEPT ![m] = ca]
                /\ corrections' = [corrections EXCEPT ![m] =
                       Append(@, [family |-> "categorical", value |-> ca])]
                /\ idx' = [idx EXCEPT ![m] = 1]
                /\ pc' = [pc EXCEPT ![m] = "categorical"]
                /\ UNCHANGED exc
    /\ UNCHANGED <<ks_args, ks_result>>
    /\ UNCHANGED <<fields, tested, drifts, null_report, percent_report>>

\* a variant of categorical_drift: the verdict rule of the numeric family
categorical_drift_nonstrict(pval, ca) == Leq(pval, ca)

\* the verdict of line 478
categorical_drift(pval, ca) == Less(pval, ca)

\* one iteration of the loop of handle_categorical
handle_categorical(m) ==
    /\ pc[m] = "categorical"
    /\ idx[m] <= Len(categorical_columns[m])
    /\ LET feature == categorical_columns[m][idx[m]]
       IN  IF ~HasColumn(pdf1[m], feature) \/ ~HasColumn(pdf2[m], feature)
           THEN /\ Raise(m, "KeyError")
                /\ UNCHANGED <<idx, tested, drifts>>
           ELSE LET obs == contingency_table(Column(pdf1[m], feature),
                                             Column(pdf2[m], feature))
                IN  IF chi2_contingency_raises(obs)
                    THEN /\ Raise(m, "ValueError")
                         /\ UNCHANGED <<idx, tested, drifts>>
                    ELSE LET p == chi2_contingency(obs).pvalue
                             ca == local_corrected_alpha(m)
                             d == categorical_drift(p, ca)
                         IN  /\ tested' = [tested EXCEPT ![m] = Append(@,
                                    [family |-> "categorical",
                                     feature |-> feature,
                                     obs |-> obs,
                                     pvalue |-> p,
                                     threshold |-> ca,
                                     drift |-> d])]
                             /\ drifts' = [drifts EXCEPT ![m] =
                                    IF d THEN on_drift(@, feature) ELSE @]
                             /\ idx' = [idx EXCEPT ![m] = @ + 1]
                             /\ UNCHANGED <<pc, exc>>
    /\ UNCHANGED <<ks_args, ks_result>>
    /\ UNCHANGED <<fields, corrected_alpha, corrections, null_report,
                   percent_report>>

\* the loop of handle_categorical is over and run() returns
run_returns(m) ==
    /\ pc[m] = "categorical"
    /\ idx[m] > Len(categorical_columns[m])
    /\ pc' = [pc EXCEPT ![m] = "done"]
    /\ UNCHANGED <<ks_args, ks_result>>
    /\ UNCHANGED <<fields, exc, idx, corrected_alpha, corrections, tested,
                   drifts, null_report, percent_report>>

(***************************************************************************)
(* Monitor.generate_null_counts (lines 481-489): per column, the percent   *)
(* of nulls in each window; 0/0 = NaN in a window without rows.            *)
(***************************************************************************)
null_percent(pdf, name) == Rat(100 * Count(Column(pdf, name), Null), Len(pdf.rows))

null_counts(p1, p2) ==
    [name \in Range(p1.columns) |->
        [pdf1 |-> null_percent(p1, name), pdf2 |-> null_percent(p2, name)]]

\* a variant of generate_null_counts: the rows with a null are dropped from
\* self.pdf1 before counting
generate_null_counts_inplace(m) ==
    /\ pc[m] \in {"done", "run_raised"}
    /\ LET kept == SelectSeq(pdf1[m].rows,
                       LAMBDA r : \A c \in DOMAIN r : r[c] # Null)
           p1 == [pdf1[m] EXCEPT !.rows = kept]
       IN  /\ pdf1' = [pdf1 EXCEPT ![m] = p1]
           /\ null_report' = [null_report EXCEPT ![m] =
                  [kind |-> "null_counts", value |-> null_counts(p1, pdf2[m])]]
    /\ UNCHANGED <<ks_args, ks_result>>
    /\ UNCHANGED <<pdf2, alpha, categorical_columns, continuous_columns, pc,
                   exc, idx, corrected_alpha, corrections, tested, drifts,
                   percent_report>>

generate_null_counts(m) ==
    /\ pc[m] \in {"done", "run_raised"}
    /\ null_report' = [null_report EXCEPT ![m] =
           [kind |-> "null_counts", value |-> null_counts(pdf1[m], pdf2[m])]]
    /\ UNCHANGED <<ks_args, ks_result>>
    /\ UNCHANGED <<fields, pc, exc, idx, corrected_alpha, corrections, tested,
                   drifts, percent_report>>

(***************************************************************************)
(* Monitor.generate_percent_change (lines 491-500).  Of the statistics of  *)
(* DataFrame.describe(), count, mean, min and max are modelled (std and    *)
(* the quartiles are computed from the same columns in the same way).      *)
(***************************************************************************)
NonNull(col) == SelectSeq(col, LAMBDA v : v # Null)

describe(col) ==
    LET x == NonNull(col)
        n == Len(x)
    IN  [count |-> Rat(n, 1),
         mean |-> IF n = 0 THEN NaN ELSE Rat(SumSeq(x), n),
         min |-> IF n = 0 THEN NaN ELSE Rat(SetMin(Range(x)), 1),
         max |-> IF n = 0 THEN NaN ELSE Rat(SetMax(Range(x)), 1)]

\* 100 * abs((a - b) / (a + 1e-100)) for a, b >= 0: the value is
\* num / den * 10^exp10.  With a = 0 the divisor is 1e-100.
percent_change(a, b) ==
    IF IsNaN(a) \/ IsNaN(b) THEN [num |-> 0, den |-> 0, exp10 |-> 0]
    ELSE IF a.num # 0
         THEN [num |-> 100 * Abs(a.num * b.den - b.num * a.den),
               den |-> b.den * a.num, exp10 |-> 0]
    ELSE IF b.num = 0 THEN [num |-> 0, den |-> 1, exp10 |-> 0]
    ELSE [num |-> 100 * b.num, den |-> b.den, exp10 |-> 100]

\* describe()[self.continuous_columns] raises KeyError on an unknown column
percent_change_raises(p1, p2, columns) ==
    \E k \in 1..Len(columns) :
        ~HasColumn(p1, columns[k]) \/ ~HasColumn(p2, columns[k])

percent_change_table(p1, p2, columns) ==
    [name \in Range(columns) |->
        LET summary1 == describe(Column(p1, name))
            summary2 == describe(Column(p2, name))
        IN  [stat \in {"count", "mean", "min", "max"} |->
                percent_change(summary1[stat], summary2[stat])]]

generate_percent_change(m) ==
    /\ pc[m] \in {"done", "run_raised"}
    /\ percent_report' = [percent_report EXCEPT ![m] =
           IF percent_change_raises(pdf1[m], pdf2[m], continuous_columns[m])
           THEN [kind |-> "raised", value |-> "KeyError"]
           ELSE [kind |-> "percent_change",
                 value |-> percent_change_table(pdf1[m], pdf2[m],
                                                continuous_columns[m])]]
    /\ UNCHANGED <<ks_args, ks_result>>
    /\ UNCHANGED <<fields, pc, exc, idx, corrected_alpha, corrections, tested,
                   drifts, null_report>>

(***************************************************************************)
(* calculate_ks (lines 158-176).  stats.ks_2samp is called with its         *)
(* default mode "auto", which for samples of at most 10000 values is the   *)
(* exact p-value: the share of the C(n1 + n2, n1) orderings of the pooled  *)
(* sample whose two empirical distribution functions come at least as far  *)
(* apart as the observed ones.  The plots are not modelled.                *)
(***************************************************************************)
\* the number of lattice paths from (i, j) to (n1, n2) on which the two
\* distribution functions stay closer than D / (n1 n2)
RECURSIVE PathsInside(_, _, _, _, _)
PathsInside(i, j, n1, n2, D) ==
    IF Abs(i * n2 - j * n1) >= D THEN 0
    ELSE IF i = n1 /\ j = n2 THEN 1
    ELSE (IF i < n1 THEN PathsInside(i + 1, j, n1, n2, D) ELSE 0)
         + (IF j < n2 THEN PathsInside(i, j + 1, n1, n2, D) ELSE 0)

\* stats.ks_2samp(data1, data2) with the default mode
ks_2samp_exact(data1, data2) ==
    LET n1 == Len(data1)
        n2 == Len(data2)
        d == ks_statistic(data1, data2)
        all == PathsInside(0, 0, n1, n2, n1 * n2 + 1)
    IN  [statistic |-> d,
         pvalue |-> IF d.num = 0 THEN Rat(1, 1)
                    ELSE Rat(all - PathsInside(0, 0, n1, n2, d.num), all)]

\* np.round(x, 3)
Round3(x) == Rat(RoundHalfEven(1000 * x.num, x.den), 1000)

\* str(b) of a numpy bool
str(b) == [type |-> "str", value |-> IF b THEN "True" ELSE "False"]

\* lines 166-168 and 174: element [0] of the result of ks_2samp, which is
\* the statistic, rounded, and the string of its comparison with 0.05
calculate_ks_return(base, comp) ==
    LET p_value == Round3(ks_2samp_exact(base, comp).statistic)
        ks_drift == str(Less(p_value, Rat(1, 20)))
    IN  [kind |-> "return", p_value |-> p_value, ks_drift |-> ks_drift]

calculate_ks ==
    /\ ks_args.kind = "call"
    /\ ks_result = NoCall
    /\ ks_result' = calculate_ks_return(ks_args.base, ks_args.comp)
    /\ UNCHANGED <<fields, pc, exc, idx, corrected_alpha, corrections, tested,
                   drifts, null_report, percent_report, ks_args>>

(***************************************************************************)
(* Spec: one Monitor is constructed and run.                               *)
(***************************************************************************)
Next ==
    \E m \in Ids :
        \/ Monitor_init(m)
        \/ run(m)
        \/ handle_numeric(m)
        \/ enter_categorical(m)
        \/ handle_categorical(m)
        \/ run_returns(m)

Spec == Init /\ [][Next]_vars

(***************************************************************************)
(* SpecSummary: one Monitor with the default alpha is constructed and run, *)
(* and its two reports are generated afterwards, as the notebook does      *)
(* (lines 510-519).                                                        *)
(***************************************************************************)
InitSummary ==
    \E a \in {x \in Args : x.alpha = Rat(1, 20)} : InitWith([m \in {1} |-> a])

NextSummary ==
    \E m \in Ids :
        \/ Monitor_init(m)
        \/ run(m)
        \/ handle_numeric(m)
        \/ enter_categorical(m)
        \/ handle_categorical(m)
        \/ run_returns(m)
        \/ generate_null_counts(m)
        \/ generate_percent_change(m)

SpecSummary == InitSummary /\ [][NextSummary]_vars

(***************************************************************************)
(* SpecConc: two Monitors over the same pair of windows, with different    *)
(* feature sets and different alphas, are constructed and run with their   *)
(* steps interleaved in any order.                                         *)
(***************************************************************************)
\* the pairs of full windows of the full schema whose first window repeats
\* the first record
ConcFramePairs ==
    {fp \in FramePairs :
        /\ fp[1].columns = FullSchema /\ fp[2].columns = FullSchema
        /\ Len(fp[1].rows) = MaxRows /\ Len(fp[2].rows) = MaxRows
        /\ \A k \in 1..MaxRows : fp[1].rows[k] = RecordList[1]}

FeatureSet(a) == Range(a.num_cols) \cup Range(a.cat_cols)

\* the arguments of the two Monitors: the first has the default alpha, the
\* second the alpha 1, and their feature sets differ
ConcArgs ==
    {[m \in {1, 2} |-> IF m = 1 THEN a ELSE b] :
        <<a, b>> \in
          {ab \in {x \in Args : /\ x.alpha = Rat(1, 20)
                               /\ <<x.pdf1, x.pdf2>> \in ConcFramePairs
                               /\ x.num_cols # <<>> /\ x.cat_cols # <<>>}
                  \X {x \in Args : /\ x.alpha = Rat(1, 1)
                                  /\ <<x.pdf1, x.pdf2>> \in ConcFramePairs
                                  /\ x.num_cols # <<>> /\ x.cat_cols # <<>>} :
              /\ ab[1].pdf1 = ab[2].pdf1 /\ ab[1].pdf2 = ab[2].pdf2
              /\ FeatureSet(ab[1]) # FeatureSet(ab[2])}}

InitConc == \E args \in ConcArgs : InitWith(args)

SpecConc == InitConc /\ [][Next]_vars

(***************************************************************************)
(* SpecCat: one Monitor with a valid alpha is constructed and run over a   *)
(* baseline window of up to 2 MaxRows records and a comparison window of   *)
(* up to MaxRows records, neither of them empty.                           *)
(***************************************************************************)
\* the windows of 1 to n rows, up to the order of the rows
RowSeqsUpTo(n) ==
    {[k \in 1..Len(s) |-> RecordList[s[k]]] :
        s \in {t \in SeqsUpTo(1..Len(RecordList), n) :
                   t # <<>> /\ NonDecreasing(t)}}

CatArgs ==
    {[pdf1 |-> Frame(FullSchema, r1), pdf2 |-> Frame(FullSchema, r2),
      cat_cols |-> cc, num_cols |-> <<"n1">>, alpha |-> a] :
        r1 \in RowSeqsUpTo(2 * MaxRows), r2 \in RowSeqsUpTo(MaxRows),
        cc \in {<<"c1">>, <<"c1", "c2">>}, a \in {Rat(1, 20), Rat(1, 1)}}

InitCat == \E a \in CatArgs : InitWith([m \in {1} |-> a])

SpecCat == InitCat /\ [][Next]_vars

(***************************************************************************)
(* SpecKS: calculate_ks is called with two samples of 1 to MaxRows values; *)
(* no Monitor is constructed.                                              *)
(***************************************************************************)
\* the values of the samples, by rank
SampleValues == {0, 1, 2}

\* the samples, up to the order of their values
Samples ==
    {t \in SeqsUpTo(SampleValues, MaxRows) : t # <<>> /\ NonDecreasing(t)}

InitKS ==
    /\ pdf1 = <<>> /\ pdf2 = <<>> /\ alpha = <<>>
    /\ categorical_columns = <<>> /\ continuous_columns = <<>>
    /\ pc = <<>> /\ exc = <<>> /\ idx = <<>>
    /\ corrected_alpha = <<>> /\ corrections = <<>>
    /\ tested = <<>> /\ drifts = <<>>
    /\ null_report = <<>> /\ percent_report = <<>>
    /\ \E base \in Samples, comp \in Samples :
           ks_args = [kind |-> "call", base |-> base, comp |-> comp]
    /\ ks_result = NoCall

NextKS == calculate_ks

SpecKS == InitKS /\ [][NextKS]_vars

(***************************************************************************)
(* Properties.                                                             *)
(***************************************************************************)
FamilyList(m, fam) ==
    IF fam = "numeric" THEN continuous_columns[m] ELSE categorical_columns[m]

\* the features tested so far for one family, in the order of the tests
TestedFeatures(m, fam) ==
    LET t == SelectSeq(tested[m], LAMBDA e : e.family = fam)
    IN  [k \in 1..Len(t) |-> t[k].feature]

\* the features whose test gave the verdict drift, in the order of the tests
DriftVerdicts(m) ==
    LET t == SelectSeq(tested[m], LAMBDA e : e.drift)
    IN  [k \in 1..Len(t) |-> t[k].feature]

\* the reports of the features of one list, in the order of the reports
FamilyDrifts(m, list) == SelectSeq(drifts[m], LAMBDA f : f \in Range(list))

IsPrefix(p, s) == Len(p) <= Len(s) /\ \A k \in 1..Len(p) : p[k] = s[k]

Pos(list, f) == CHOOSE k \in 1..Len(list) : list[k] = f

InListOrder(d, list) ==
    \A i, j \in 1..Len(d) : (i < j) <=> (Pos(list, d[i]) < Pos(list, d[j]))

ValidAlpha(a) == Less(Rat(0, 1), a) /\ Leq(a, Rat(1, 1))

\* the column sets differ, or a listed feature is absent from a window
SchemaProblem(m) ==
    \/ Range(pdf1[m].columns) # Range(pdf2[m].columns)
    \/ \E f \in Range(continuous_columns[m]) \cup Range(categorical_columns[m]) :
           ~HasColumn(pdf1[m], f) \/ ~HasColumn(pdf2[m], f)

\* C1: when the windows' column sets differ or a listed feature is absent
\* from a window, no test is executed, no drift is reported and the run does
\* not complete.
C1_SchemaMismatchFailsFast ==
    \A m \in Ids :
        SchemaProblem(m) =>
            /\ tested[m] = <<>>
            /\ drifts[m] = <<>>
            /\ pc[m] # "done"

\* C2: a comparator that fails for lack of data never ends the run: the
\* feature is skipped and the run goes on.
C2_InsufficientDataIsSkipped ==
    \A m \in Ids : ~(pc[m] = "run_raised" /\ exc[m] = "ValueError")

\* C3: within each family the features are tested in the order of the
\* list, and two features are reported in the order they have in the list.
C3_ResultsInListOrder ==
    \A m \in Ids :
        /\ IsPrefix(TestedFeatures(m, "numeric"), continuous_columns[m])
        /\ IsPrefix(TestedFeatures(m, "categorical"), categorical_columns[m])
        /\ InListOrder(FamilyDrifts(m, continuous_columns[m]),
                       continuous_columns[m])
        /\ InListOrder(FamilyDrifts(m, categorical_columns[m]),
                       categorical_columns[m])

\* a run under a valid alpha completed and reported n2 before n1, the order
\* of its list
C3_Witness ==
    \E m \in Ids :
        /\ pc[m] = "done"
        /\ ValidAlpha(alpha[m])
        /\ continuous_columns[m] = <<"n2", "n1">>
        /\ FamilyDrifts(m, continuous_columns[m]) = <<"n2", "n1">>

\* C4: when a run completes, every feature of the two lists has been tested
\* exactly once, and the reports are exactly the features whose verdict is
\* drift, once each.
C4_EveryFeatureOnce ==
    \A m \in Ids :
        pc[m] = "done" =>
            /\ TestedFeatures(m, "numeric") = continuous_columns[m]
            /\ TestedFeatures(m, "categorical") = categorical_columns[m]
            /\ Len(tested[m]) =
                   Len(continuous_columns[m]) + Len(categorical_columns[m])
            /\ drifts[m] = DriftVerdicts(m)

\* a completed run with two features per family, some reported, some not
C4_Witness ==
    \E m \in Ids :
        /\ pc[m] = "done"
        /\ Len(continuous_columns[m]) = 2
        /\ Len(categorical_columns[m]) = 2
        /\ drifts[m] # <<>>
        /\ Len(drifts[m]) < Len(tested[m])

\* C5: the threshold of every test is the family-wide alpha divided by the
\* number of features of the test's own family, and a run computes it at
\* most once per family.
C5_ThresholdPerFamily ==
    \A m \in Ids :
        /\ \A k \in 1..Len(tested[m]) :
               LET e == tested[m][k]
               IN  RatEq(e.threshold,
                         Rat(alpha[m].num,
                             alpha[m].den * Len(FamilyList(m, e.family))))
        /\ \A fam \in {"numeric", "categorical"} :
               Cardinality({k \in 1..Len(corrections[m]) :
                               corrections[m][k].family = fam}) <= 1

\* a completed run with two numeric features and one categorical feature
C5_Witness ==
    \E m \in Ids :
        /\ pc[m] = "done"
        /\ Len(continuous_columns[m]) = 2
        /\ Len(categorical_columns[m]) = 1
        /\ Len(tested[m]) = 3

\* C6: a Monitor whose alpha is outside (0, 1] tests no feature and reports
\* no drift.
C6_InvalidAlphaRejected ==
    \A m \in Ids :
        ~ValidAlpha(alpha[m]) => tested[m] = <<>> /\ drifts[m] = <<>>

\* C7: a numeric feature is reported exactly when its p-value is at most the
\* threshold, a categorical feature exactly when its p-value is below it.
C7_VerdictRules ==
    \A m \in Ids :
        \A k \in 1..Len(tested[m]) :
            LET e == tested[m][k]
                reported == e.feature \in Range(drifts[m])
            IN  IF e.family = "numeric"
                THEN reported <=> Leq(e.pvalue, e.threshold)
                ELSE reported <=> Less(e.pvalue, e.threshold)

\* in one run under a valid alpha a numeric feature with its p-value equal
\* to the threshold was reported and a categorical one was not
C7_Witness ==
    \E m \in Ids :
        /\ ValidAlpha(alpha[m])
        /\ \E k \in 1..Len(tested[m]) :
               /\ tested[m][k].family = "numeric"
               /\ RatEq(tested[m][k].pvalue, tested[m][k].threshold)
               /\ tested[m][k].feature \in Range(drifts[m])
        /\ \E k \in 1..Len(tested[m]) :
               /\ tested[m][k].family = "categorical"
               /\ RatEq(tested[m][k].pvalue, tested[m][k].threshold)
               /\ tested[m][k].feature \notin Range(drifts[m])

\* C8: no step of run(), generate_null_counts() or generate_percent_change()
\* changes the two windows, alpha or the two feature lists.
C8_InputsUnchanged == [][fields' = fields]_vars

\* a run that tested a window with a null completed and both reports were
\* generated
C8_Witness ==
    \E m \in Ids :
        /\ pc[m] = "done"
        /\ tested[m] # <<>>
        /\ \E k \in 1..Len(pdf1[m].rows) :
               \E c \in DOMAIN pdf1[m].rows[k] : pdf1[m].rows[k][c] = Null
        /\ null_report[m].kind = "null_counts"
        /\ percent_report[m].kind = "percent_change"

\* the reports a family's loop makes when it runs alone from position k
\* with the reports log already made, and whether it raised
RECURSIVE SoloFamily(_, _, _, _, _, _, _)
SoloFamily(p1, p2, fam, list, ca, k, log) ==
    IF k > Len(list) THEN [drifts |-> log, raised |-> FALSE]
    ELSE LET f == list[k]
         IN  IF ~HasColumn(p1, f) \/ ~HasColumn(p2, f)
             THEN [drifts |-> log, raised |-> TRUE]
             ELSE LET c1 == Column(p1, f)
                      c2 == Column(p2, f)
                  IN  IF fam = "numeric"
                      THEN IF ks_2samp_raises(c1, c2)
                           THEN [drifts |-> log, raised |-> TRUE]
                           ELSE SoloFamily(p1, p2, fam, list, ca, k + 1,
                                    IF Leq(ks_2samp(c1, c2).pvalue, ca)
                                    THEN Append(log, f) ELSE log)
                      ELSE LET obs == contingency_table(c1, c2)
                           IN  IF chi2_contingency_raises(obs)
                               THEN [drifts |-> log, raised |-> TRUE]
                               ELSE SoloFamily(p1, p2, fam, list, ca, k + 1,
                                        IF Less(chi2_contingency(obs).pvalue, ca)
                                        THEN Append(log, f) ELSE log)

\* the reports of the Monitor m when it is constructed and run alone
SoloRun(m) ==
    IF init_exception(pdf1[m], pdf2[m]) # "none" \/ continuous_columns[m] = <<>>
    THEN [drifts |-> <<>>, raised |-> TRUE]
    ELSE LET n == SoloFamily(pdf1[m], pdf2[m], "numeric", continuous_columns[m],
                      Rat(alpha[m].num, alpha[m].den * Len(continuous_columns[m])),
                      1, <<>>)
         IN  IF n.raised \/ categorical_columns[m] = <<>>
             THEN [drifts |-> n.drifts, raised |-> TRUE]
             ELSE SoloFamily(pdf1[m], pdf2[m], "categorical",
                      categorical_columns[m],
                      Rat(alpha[m].num, alpha[m].den * Len(categorical_columns[m])),
                      1, n.drifts)

\* C9: when two runs with different feature sets and alphas are interleaved
\* in any order, the reports of each are at any moment a prefix of the
\* reports it makes when run alone, and when it has ended they are exactly
\* those reports and it has ended the same way.
C9_RunsDoNotInterfere ==
    \A m \in Ids :
        /\ IsPrefix(drifts[m], SoloRun(m).drifts)
        /\ pc[m] \in {"done", "run_raised", "init_raised"} =>
               /\ drifts[m] = SoloRun(m).drifts
               /\ (pc[m] = "done") <=> ~SoloRun(m).raised

\* two runs with different alphas are both under way, one in its numeric and
\* one in its categorical loop, and have given different verdicts on the
\* same feature
C9_Witness ==
    /\ Ids = {1, 2}
    /\ alpha[1] # alpha[2]
    /\ {pc[1], pc[2]} = {"numeric", "categorical"}
    /\ \E i \in 1..Len(tested[1]), j \in 1..Len(tested[2]) :
           /\ tested[1][i].feature = tested[2][j].feature
           /\ tested[1][i].drift # tested[2][j].drift
           /\ tested[2][j].feature \in Range(drifts[2])

\* C10 as stated: each row of a contingency table sums to the number of
\* records of its window, nulls included.
C10_RowSumsCountRecords ==
    \A m \in Ids :
        \A k \in 1..Len(tested[m]) :
            LET e == tested[m][k]
            IN  e.family = "categorical" =>
                    /\ SumSeq(e.obs.pdf1) = Len(pdf1[m].rows)
                    /\ SumSeq(e.obs.pdf2) = Len(pdf2[m].rows)

\* C10 amended: nulls are dropped and are no category of the table; each
\* row of a contingency table sums to the number of non-null values of the
\* feature in its window.
C10_RowSumsCountNonNull ==
    \A m \in Ids :
        \A k \in 1..Len(tested[m]) :
            LET e == tested[m][k]
            IN  e.family = "categorical" =>
                    /\ Null \notin Range(e.obs.index)
                    /\ SumSeq(e.obs.pdf1) = Len(pdf1[m].rows)
                           - Count(Column(pdf1[m], e.feature), Null)
                    /\ SumSeq(e.obs.pdf2) = Len(pdf2[m].rows)
                           - Count(Column(pdf2[m], e.feature), Null)

\* a categorical feature with a null in each window was tested
C10_Witness ==
    \E m \in Ids :
        \E k \in 1..Len(tested[m]) :
            /\ tested[m][k].family = "categorical"
            /\ Count(Column(pdf1[m], tested[m][k].feature), Null) > 0
            /\ Count(Column(pdf2[m], tested[m][k].feature), Null) > 0

\* the categorical tests executed so far
CategoricalTests(m) == SelectSeq(tested[m], LAMBDA e : e.family = "categorical")

\* the table of the feature f of m with the roles of the two windows swapped
SwappedTable(m, f) ==
    contingency_table(Column(pdf2[m], f), Column(pdf1[m], f))

\* C11: with the two windows swapped the categorical test fails for the
\* same features, and for every feature tested it gives the same statistic,
\* the same p-value and the same verdict.
C11_CategoricalSymmetric ==
    \A m \in Ids :
        /\ pc[m] # "init" /\ pc[m] # "init_raised" =>
             \A f \in Range(categorical_columns[m]) :
                 chi2_contingency_raises(
                     contingency_table(Column(pdf1[m], f), Column(pdf2[m], f)))
                 <=> chi2_contingency_raises(SwappedTable(m, f))
        /\ \A k \in 1..Len(CategoricalTests(m)) :
               LET e == CategoricalTests(m)[k]
                   r == chi2_contingency(e.obs)
                   s == chi2_contingency(SwappedTable(m, e.feature))
               IN  /\ s.statistic = r.statistic
                   /\ s.pvalue = r.pvalue /\ s.pvalue = e.pvalue
                   /\ categorical_drift(s.pvalue, e.threshold) <=> e.drift

\* a feature whose two rows of counts differ was tested and reported
C11_Witness ==
    \E m \in Ids :
        \E k \in 1..Len(CategoricalTests(m)) :
            LET e == CategoricalTests(m)[k]
            IN  /\ e.obs.pdf1 # e.obs.pdf2
                /\ SumSeq(e.obs.pdf1) # SumSeq(e.obs.pdf2)
                /\ chi2_contingency(e.obs).statistic # Rat(0, 1)
                /\ e.drift

\* the categories of the feature f in the two windows of m, and whether each
\* has in the first window twice the count it has in the second
SameProportionsHalved(m, f) ==
    LET col1 == Column(pdf1[m], f)
        col2 == Column(pdf2[m], f)
        cats == (Range(col1) \cup Range(col2)) \ {Null}
    IN  /\ cats # {}
        /\ \A c \in cats : Count(col1, c) = 2 * Count(col2, c)

\* C12: a categorical feature whose categories have the same proportions in
\* the two windows, the second window holding half the count of the first,
\* is tested with p-value 1 and is not reported.
C12_HalvedCountNoDrift ==
    \A m \in Ids :
        \A k \in 1..Len(CategoricalTests(m)) :
            LET e == CategoricalTests(m)[k]
            IN  SameProportionsHalved(m, e.feature) =>
                    /\ ~e.drift
                    /\ e.feature \notin Range(drifts[m])
                    /\ RatEq(e.pvalue, Rat(1, 1))

\* a feature with the counts 2, 2 in the first window and 1, 1 in the
\* second was tested at the largest valid alpha and the run completed
C12_Witness ==
    \E m \in Ids :
        /\ pc[m] = "done"
        /\ alpha[m] = Rat(1, 1)
        /\ \E k \in 1..Len(CategoricalTests(m)) :
               LET e == CategoricalTests(m)[k]
               IN  /\ SameProportionsHalved(m, e.feature)
                   /\ e.obs.pdf1 = <<2, 2>> /\ e.obs.pdf2 = <<1, 1>>
                   /\ RatEq(e.threshold, Rat(1, 1))
                   /\ ~e.drift

\* every value of the feature f is smaller in the first window of m than
\* every value in the second
DisjointRanges(m, f) ==
    SetMax(Range(Column(pdf1[m], f))) < SetMin(Range(Column(pdf2[m], f)))

\* C13: a numeric feature whose values in the first window are all smaller
\* than its values in the second is reported whenever it is tested,
\* whatever the sizes of the windows.
C13_DisjointRangesDrift ==
    \A m \in Ids :
        \A k \in 1..Len(tested[m]) :
            LET e == tested[m][k]
            IN  (e.family = "numeric" /\ DisjointRanges(m, e.feature)) =>
                    e.drift /\ e.feature \in Range(drifts[m])

\* the categories of the feature f observed in either window of m
ObservedCategories(m, f) ==
    (Range(Column(pdf1[m], f)) \cup Range(Column(pdf2[m], f))) \ {Null}

\* C14: the table of every categorical test has two rows, one per window,
\* and exactly one column for each category observed in either window; a
\* cell is the number of occurrences of its category in its window, which
\* is 0 for a category the window does not hold.
C14_TableStructure ==
    \A m \in Ids :
        \A k \in 1..Len(CategoricalTests(m)) :
            LET e == CategoricalTests(m)[k]
                col1 == Column(pdf1[m], e.feature)
                col2 == Column(pdf2[m], e.feature)
                K == Len(e.obs.index)
            IN  /\ Range(e.obs.index) = ObservedCategories(m, e.feature)
                /\ K = Cardinality(ObservedCategories(m, e.feature))
                /\ Len(e.obs.pdf1) = K /\ Len(e.obs.pdf2) = K
                /\ \A j \in 1..K :
                       /\ e.obs.pdf1[j] = Count(col1, e.obs.index[j])
                       /\ e.obs.pdf2[j] = Count(col2, e.obs.index[j])
                       /\ e.obs.index[j] \notin Range(col1) => e.obs.pdf1[j] = 0
                       /\ e.obs.index[j] \notin Range(col2) => e.obs.pdf2[j] = 0

\* a feature was tested with two categories, one of them absent from the
\* second window and one of them held more than once by the first
C14_Witness ==
    \E m \in Ids :
        \E k \in 1..Len(CategoricalTests(m)) :
            LET e == CategoricalTests(m)[k]
            IN  /\ Len(e.obs.index) = 2
                /\ \E j \in 1..2 : e.obs.pdf2[j] = 0 /\ e.obs.pdf1[j] > 0
                /\ \E j \in 1..2 : e.obs.pdf1[j] > 1
                /\ Null \in Range(Column(pdf1[m], e.feature))

\* the numeric family of m has been processed to its end: its corrected
\* alpha was computed and every feature of the list was tested
NumericCompleted(m) ==
    /\ continuous_columns[m] # <<>>
    /\ TestedFeatures(m, "numeric") = continuous_columns[m]

\* C16: as long as the numeric family has not been processed to its end, and
\* for good when it failed (an empty numeric list included), no corrected
\* alpha of the categorical family is computed, no categorical feature is
\* tested and none is reported; a run that failed in the numeric family does
\* not complete.
C16_NumericFailureEndsRun ==
    \A m \in Ids :
        ~NumericCompleted(m) =>
            /\ CategoricalTests(m) = <<>>
            /\ FamilyDrifts(m, categorical_columns[m]) = <<>>
            /\ \A k \in 1..Len(corrections[m]) :
                   corrections[m][k].family # "categorical"
            /\ pc[m] \notin {"categorical", "done"}

\* a run with an empty numeric list failed on the division of alpha by the
\* length of the list, with a categorical list of two features that both
\* windows hold
C16_Witness ==
    \E m \in Ids :
        /\ pc[m] = "run_raised"
        /\ ~NumericCompleted(m)
        /\ Len(categorical_columns[m]) = 2
        /\ \A f \in Range(categorical_columns[m]) :
               HasColumn(pdf1[m], f) /\ HasColumn(pdf2[m], f)
        /\ Len(pdf1[m].rows) > 0 /\ Len(pdf2[m].rows) > 0
        /\ continuous_columns[m] = <<>>
        /\ exc[m] = "ZeroDivisionError"

\* C15: the first result of calculate_ks is the p-value of the two-sample KS
\* test of its two inputs, rounded to 3 decimals, and the second is a
\* boolean that is true exactly when that p-value is below 0.05.
C15_CalculateKsReturnsPValue ==
    ks_result.kind = "return" =>
        LET p == ks_2samp_exact(ks_args.base, ks_args.comp).pvalue
        IN  /\ RatEq(ks_result.p_value, Round3(p))
            /\ ks_result.ks_drift.type = "bool"
            /\ ks_result.ks_drift.value = "True" <=> Less(Round3(p), Rat(1, 20))

=============================================================================
